---- MODULE Spec2Model ----
(***************************************************************************)
(* A model of mturk_dash.py: the cursor paginator (paginate), the answer   *)
(* decoder (parse_answer), the record normaliser (parse_assignment), the   *)
(* retrieval loop (retrieve_assignments) and the two aggregations          *)
(* (to_hit_summary and the worker table).                                  *)
(*                                                                         *)
(* Identifiers (HIT ids, worker ids, titles, ...) are small integers, so   *)
(* that the orderings pandas uses are the orderings of the integers.       *)
(* Python's None is the value None (0) where a cursor is concerned.        *)
(***************************************************************************)
EXTENDS Integers, Sequences, FiniteSets, TLC

VARIABLES
    pc,                     \* position of the running function
    \* ---- paginate
    service,                \* the listing operation: cursor -> response
    max_results,            \* paginate's max_results argument
    results,                \* paginate's results list
    local_results,          \* paginate's local_results
    next_token,             \* paginate's next_token (None when absent)
    calls,                  \* cursors paginate has passed to the operation, in order
    my_bar,                 \* last value given to the progress widget, <<num, den>>
    \* ---- parse_assignment / parse_answer
    assign,                 \* the raw submission being parsed
    answer,                 \* the outcome of parse_answer(assign)
    parsed,                 \* the record parse_assignment returns
    \* ---- retrieve_assignments
    hit_ids,                \* the hit_ids argument
    hit_type_id,            \* the hit_type_id argument
    idx,                    \* number of units whose loop body has run
    listed,                 \* raw submissions the service has returned so far
    assignments_for_review, \* the list retrieve_assignments builds
    progress_bar,           \* every value given to the progress widget, in order
    \* ---- aggregation
    worker_df,              \* the worker table
    hit_df,                 \* the rows to_hit_summary is given
    summary                 \* the rows to_hit_summary returns

vars == <<pc, service, max_results, results, local_results, next_token, calls,
          my_bar, assign, answer, parsed, hit_ids, hit_type_id, idx, listed,
          assignments_for_review, progress_bar, worker_df, hit_df, summary>>

paginateVars == <<service, max_results, results, local_results, next_token,
                  calls, my_bar>>
parseVars == <<assign, answer, parsed>>
retrieveVars == <<hit_ids, hit_type_id, idx, listed, progress_bar>>
summaryVars == <<hit_df, summary>>
workerVars == <<assignments_for_review, worker_df>>
notPaginate == <<parseVars, retrieveVars, summaryVars, assignments_for_review,
                 worker_df>>

\* ------------------------------------------------------------------ bounds
NPages == 2        \* distinct cursors the listing service knows
MaxPage == 2       \* most items on one page
MaxM == 4          \* largest max_results tried
MaxFreeText == 2   \* most FreeText elements in one answer envelope
MaxDays == 1       \* accept and submit times lie within MaxDays days and a bit
NWorkers == 2      \* distinct worker ids
MaxHits == 2       \* most unit ids given to retrieve_assignments
MaxAssign == 2     \* most submissions the service lists for one unit
MaxSubs == 3       \* most submissions given to the worker table
MaxHitRows == 3    \* most rows given to to_hit_summary

None == 0

\* ---------------------------------------------------------------- paginate

\* The first call carries no NextToken; the service answers it with page 1.
FirstPage == 1

\* A response of the listing operation: `size` items and the cursor `next`.
Responses == [size : 0..MaxPage, next : {None} \cup (1..NPages)]

\* Any deterministic service over NPages cursors; a cursor may lead anywhere,
\* also back (a service that never runs out of pages).
Services == [1..NPages -> Responses]

\* result_fn(resp): the items of the page behind cursor p, told apart by page
\* and position.
result_fn(svc, p) == [i \in 1..svc[p].size |-> <<p, i>>]

\* resp.get('NextToken')
NextTokenOf(svc, p) == svc[p].next

ExtendKeepsOnlyLast(res, more) == more

\* results.extend(local_results)
Extend(res, more) == res \o more

\* max_results is not None and len(results) >= max_results
ReachedMax(res, m) == Len(res) >= m

LoopCondCursorOnly == next_token # None

\* `while local_results and next_token`
LoopCond == local_results # <<>> /\ next_token # None

\* min(len(results)/max_results, 1.0) as a fraction
PercentComplete(res, m) == IF Len(res) >= m THEN <<1, 1>> ELSE <<Len(res), m>>

InitPaginate ==
    /\ pc = "start"
    /\ service \in Services
    /\ max_results \in (-1)..MaxM
    /\ results = <<>>
    /\ local_results = <<>>
    /\ next_token = None
    /\ calls = <<>>
    /\ my_bar = <<0, 1>>
    /\ assign = None /\ answer = None /\ parsed = None
    /\ hit_ids = <<>> /\ hit_type_id = None /\ idx = 0 /\ listed = <<>>
    /\ assignments_for_review = <<>> /\ progress_bar = <<>>
    /\ worker_df = <<>> /\ hit_df = <<>> /\ summary = <<>>

\* lines 25-31: the first listing call and the progress widget's creation
FirstCall ==
    /\ pc = "start"
    /\ local_results' = result_fn(service, FirstPage)
    /\ results' = Extend(results, result_fn(service, FirstPage))
    /\ next_token' = NextTokenOf(service, FirstPage)
    /\ calls' = Append(calls, None)
    /\ my_bar' = <<0, 1>>
    /\ pc' = "loop"
    /\ UNCHANGED <<service, max_results>>
    /\ UNCHANGED notPaginate

\* lines 32, 35-40: one more page
NextCall ==
    /\ pc = "loop"
    /\ LoopCond
    /\ ~ReachedMax(results, max_results)
    /\ local_results' = result_fn(service, next_token)
    /\ next_token' = NextTokenOf(service, next_token)
    /\ results' = Extend(results, result_fn(service, next_token))
    /\ calls' = Append(calls, next_token)
    /\ my_bar' = PercentComplete(results', max_results)
    /\ pc' = "loop"
    /\ UNCHANGED <<service, max_results>>
    /\ UNCHANGED notPaginate

\* lines 32-34, 41-42: the break on the maximum, then the return
BreakOnMax ==
    /\ pc = "loop"
    /\ LoopCond
    /\ ReachedMax(results, max_results)
    /\ my_bar' = <<1, 1>>
    /\ pc' = "done"
    /\ UNCHANGED <<service, max_results, results, local_results, next_token, calls>>
    /\ UNCHANGED notPaginate

\* lines 32, 41-42: the loop condition fails, then the return
LoopExit ==
    /\ pc = "loop"
    /\ ~LoopCond
    /\ my_bar' = <<1, 1>>
    /\ pc' = "done"
    /\ UNCHANGED <<service, max_results, results, local_results, next_token, calls>>
    /\ UNCHANGED notPaginate

NextPaginate == FirstCall \/ NextCall \/ BreakOnMax \/ LoopExit

SpecPaginate == InitPaginate /\ [][NextPaginate]_vars

\* paginate is a sequential loop: a step that can be taken is taken.
FairPaginate == SpecPaginate /\ WF_vars(NextPaginate)

\* The pages a caller gets by following the cursors from the first call: up to
\* the first response without a cursor (and, with stopOnEmpty, up to the first
\* response without items). `finite` is FALSE when the cursors lead round in a
\* circle before that.
RECURSIVE Walk(_, _, _, _)
Walk(svc, p, fuel, stopOnEmpty) ==
    IF svc[p].next = None \/ (stopOnEmpty /\ svc[p].size = 0)
    THEN [finite |-> TRUE, pages |-> <<p>>]
    ELSE IF fuel = 0
    THEN [finite |-> FALSE, pages |-> <<p>>]
    ELSE LET rest == Walk(svc, svc[p].next, fuel - 1, stopOnEmpty)
         IN  [finite |-> rest.finite, pages |-> <<p>> \o rest.pages]

CursorChain == Walk(service, FirstPage, NPages, FALSE)
FetchedChain == Walk(service, FirstPage, NPages, TRUE)

RECURSIVE ItemsOf(_, _)
ItemsOf(svc, pages) ==
    IF pages = <<>> THEN <<>>
    ELSE result_fn(svc, Head(pages)) \o ItemsOf(svc, Tail(pages))

\* The cursors a caller passes when it fetches `pages` one after the other.
CursorsFor(pages) ==
    [i \in 1..Len(pages) |-> IF i = 1 THEN None ELSE pages[i]]

\* C1: the list paginate returns holds at most max_results items, for every
\* max_results >= 0 and every sequence of pages.
C1_AtMostMax ==
    (pc = "done" /\ max_results >= 0) => Len(results) <= max_results

\* C2 as stated: when the pages up to the first response without a cursor hold
\* fewer than max_results items in all, paginate returns their concatenation,
\* in order, each page fetched once.
C2_AllPagesToLastCursor ==
    (pc = "done" /\ CursorChain.finite
        /\ Len(ItemsOf(service, CursorChain.pages)) < max_results)
    => /\ results = ItemsOf(service, CursorChain.pages)
       /\ calls = CursorsFor(CursorChain.pages)

\* C2 amended: when the pages up to the first response that carries no cursor
\* or yields no items hold fewer than max_results items in all, paginate
\* returns their concatenation, in page order and in each page's order, having
\* fetched each of them once and nothing else.
C2_AllPagesToFirstStop ==
    (pc = "done" /\ FetchedChain.finite
        /\ Len(ItemsOf(service, FetchedChain.pages)) < max_results)
    => /\ results = ItemsOf(service, FetchedChain.pages)
       /\ calls = CursorsFor(FetchedChain.pages)

\* paginate has returned the items of two or more fetched pages, fewer than
\* max_results in all.
C2_Witness ==
    /\ pc = "done"
    /\ FetchedChain.finite
    /\ Len(FetchedChain.pages) >= 2
    /\ Len(ItemsOf(service, FetchedChain.pages)) < max_results
    /\ Len(results) >= 2

SecondsPerDay == 86400

\* A value no raw record carries as its worker or type id: what a payload brings in under a key that a
\* normalised field also uses.
ForeignId == NWorkers + 1

\* The text of a FreeText element, by what json.loads makes of it: not JSON,
\* JSON that is no object, or an object (a mapping of field name to value).
NotJson == [json_ok |-> FALSE]
JsonNumber == [json_ok |-> TRUE, is_object |-> FALSE]
JsonObject(fields) == [json_ok |-> TRUE, is_object |-> TRUE, fields |-> fields]

Texts ==
    { NotJson, JsonNumber,
      JsonObject("label" :> 1),
      JsonObject("label" :> 2),
      JsonObject(("label" :> 1) @@ ("worker_id" :> ForeignId)),
      JsonObject(("label" :> 1) @@ ("hit_type_id" :> ForeignId)) }

SeqsUpTo(S, n) == UNION { [1..k -> S] : k \in 0..n }

\* An answer envelope: XML that parses or does not, and, when it does, its
\* FreeText elements in document order.
MalformedXml == [xml_ok |-> FALSE, free_texts |-> <<>>]
EnvelopesOver(texts, n) ==
    {MalformedXml} \cup { [xml_ok |-> TRUE, free_texts |-> ft] : ft \in SeqsUpTo(texts, n) }
Envelopes == EnvelopesOver(Texts, MaxFreeText)

Times == {0} \cup { d * SecondsPerDay + 30 : d \in 0..MaxDays }
Workers == 1..NWorkers
Submitted == "Submitted"
Approved == "Approved"

RawAssignments(hits, ids, workers, statuses, accepts, submits, envelopes) ==
    [HITId : hits, AssignmentId : ids, WorkerId : workers,
     AssignmentStatus : statuses, AcceptTime : accepts, SubmitTime : submits,
     Answer : envelopes]

Raised(exc) == [raised |-> TRUE, exc |-> exc]
Returned(v) == [raised |-> FALSE, value |-> v]

\* json.loads(answer)
json_loads(text) ==
    IF text.json_ok THEN Returned(text) ELSE Raised("JSONDecodeError")

AssertDisabled(n) == TRUE

\* assert(len(free_text_nodes) <= 1)
AssertOK(n) == n <= 1

\* parse_answer(assign): what it returns or raises
parse_answer(a) ==
    IF ~a.Answer.xml_ok THEN Raised("ExpatError")
    ELSE LET free_text_nodes == a.Answer.free_texts IN
         IF ~AssertOK(Len(free_text_nodes)) THEN Raised("AssertionError")
         ELSE IF Len(free_text_nodes) = 0 THEN Raised("IndexError")
         ELSE json_loads(free_text_nodes[1])

\* (submit_time - accept_time).seconds, the times in whole seconds: the
\* seconds field of the normalised timedelta, not its total.
TimedeltaSeconds(delta) == delta % SecondsPerDay

\* result.update(more): more's keys win; a value that is no mapping raises
\* before anything is stored.
DictUpdate(result, more) ==
    IF more.is_object THEN Returned(more.fields @@ result) ELSE Raised("TypeError")

\* `result['parsing_error']: e` is an annotation: it stores nothing.
ExceptClause(result, exc) == result

\* parse_assignment(assign)
parse_assignment(a) ==
    LET seconds == TimedeltaSeconds(a.SubmitTime - a.AcceptTime)
        result == [hit_id |-> a.HITId,
                   assign_id |-> a.AssignmentId,
                   worker_id |-> a.WorkerId,
                   assign_status |-> a.AssignmentStatus,
                   seconds |-> seconds]
        more == parse_answer(a)
    IN  IF more.raised THEN ExceptClause(result, more.exc)
        ELSE LET updated == DictUpdate(result, more.value)
             IN  IF updated.raised THEN ExceptClause(result, updated.exc)
                 ELSE updated.value

ParseInputs ==
    RawAssignments({1}, {1}, Workers, {Submitted, Approved}, Times, Times, Envelopes)

InitParse ==
    /\ pc = "parse"
    /\ assign \in ParseInputs
    /\ answer = None /\ parsed = None
    /\ service = None /\ max_results = None /\ results = <<>>
    /\ local_results = <<>> /\ next_token = None /\ calls = <<>>
    /\ my_bar = <<0, 1>>
    /\ hit_ids = <<>> /\ hit_type_id = None /\ idx = 0 /\ listed = <<>>
    /\ assignments_for_review = <<>> /\ progress_bar = <<>>
    /\ worker_df = <<>> /\ hit_df = <<>> /\ summary = <<>>

\* lines 78-86 and 89-105 on the raw submission `assign`
ParseAssignment ==
    /\ pc = "parse"
    /\ answer' = parse_answer(assign)
    /\ parsed' = parse_assignment(assign)
    /\ pc' = "parsed"
    /\ UNCHANGED <<assign, paginateVars, retrieveVars, workerVars, summaryVars>>

NextParse == ParseAssignment

SpecParse == InitParse /\ [][NextParse]_vars

BaseFields == {"hit_id", "assign_id", "worker_id", "assign_status", "seconds"}

\* A record carries a marker when it has a field that is neither a normalised
\* field nor a field of a payload.
PayloadFields == {"label", "worker_id", "hit_type_id"}
Flagged(rec) == DOMAIN rec \ (BaseFields \cup PayloadFields) # {}

\* C5: an envelope with two or more FreeText elements makes parse_answer raise
\* before it returns anything, and the record parse_assignment builds holds
\* nothing taken from either element.
C5_TwoFreeTextsRaise ==
    (pc = "parsed" /\ Len(assign.Answer.free_texts) >= 2)
    => /\ answer.raised
       /\ DOMAIN parsed = BaseFields

\* An envelope whose two FreeText elements both hold an object has been parsed.
C5_Witness ==
    /\ pc = "parsed"
    /\ Len(assign.Answer.free_texts) = 2
    /\ \A i \in 1..2 : assign.Answer.free_texts[i].json_ok
                        /\ assign.Answer.free_texts[i].is_object
    /\ answer.raised

\* C8: with accept-time <= submit-time, seconds is the whole number of seconds
\* from accept-time to submit-time, also a day or more apart; and an
\* accept-time after the submit-time never gives a non-negative seconds that
\* nothing flags.
C8_SecondsIsDifference ==
    pc = "parsed"
    => /\ assign.AcceptTime <= assign.SubmitTime
            => parsed.seconds = assign.SubmitTime - assign.AcceptTime
       /\ assign.AcceptTime > assign.SubmitTime
            => (parsed.seconds < 0 \/ Flagged(parsed))

\* ------------------------------------------------------ retrieve_assignments

HitTypeIds == {1, 2}

\* What the service may list for a unit: any worker, any of these envelopes.
RetrievalTexts ==
    { NotJson,
      JsonObject("label" :> 1),
      JsonObject(("label" :> 1) @@ ("worker_id" :> ForeignId)),
      JsonObject(("label" :> 1) @@ ("hit_type_id" :> ForeignId)) }
Shapes == [WorkerId : Workers, Answer : EnvelopesOver(RetrievalTexts, 1)]

\* resp.get('Assignments', []) for unit h: the listed submissions, each with
\* every required field, an assignment id of its own and h as its HITId.
Assignments(h, shapes, first_id) ==
    [i \in 1..Len(shapes) |->
        [HITId |-> h, AssignmentId |-> first_id + i,
         WorkerId |-> shapes[i].WorkerId, AssignmentStatus |-> Submitted,
         AcceptTime |-> 0, SubmitTime |-> 30, Answer |-> shapes[i].Answer]]

\* parsed_assignment['hit_type_id'] = hit_type_id
SetHitType(rec, t) == ("hit_type_id" :> t) @@ rec

\* idx/len(hit_ids), idx counting from 0, as a fraction
LoopProgress(i, n) == <<i, n>>

InitRetrieve ==
    /\ pc = "begin"
    /\ hit_ids \in { [i \in 1..n |-> i] : n \in 0..MaxHits }
    /\ hit_type_id \in HitTypeIds
    /\ idx = 0
    /\ listed = <<>>
    /\ assignments_for_review = <<>>
    /\ progress_bar = <<>>
    /\ assign = None /\ answer = None /\ parsed = None
    /\ service = None /\ max_results = None /\ results = <<>>
    /\ local_results = <<>> /\ next_token = None /\ calls = <<>>
    /\ my_bar = <<0, 1>>
    /\ worker_df = <<>> /\ hit_df = <<>> /\ summary = <<>>

\* lines 124-126
BeginRetrieve ==
    /\ pc = "begin"
    /\ progress_bar' = <<<<0, 1>>>>
    /\ pc' = "retrieve"
    /\ UNCHANGED <<hit_ids, hit_type_id, idx, listed, assignments_for_review>>
    /\ UNCHANGED <<paginateVars, parseVars, worker_df, summaryVars>>

\* lines 127-134: the loop body for one unit
RetrieveHit ==
    /\ pc = "retrieve"
    /\ idx < Len(hit_ids)
    /\ \E shapes \in SeqsUpTo(Shapes, MaxAssign) :
          LET assignments_for_hit ==
                  Assignments(hit_ids[idx + 1], shapes, Len(listed))
          IN  /\ listed' = listed \o assignments_for_hit
              /\ assignments_for_review' = assignments_for_review \o
                    [i \in 1..Len(assignments_for_hit) |->
                        SetHitType(parse_assignment(assignments_for_hit[i]),
                                   hit_type_id)]
    /\ progress_bar' = Append(progress_bar, LoopProgress(idx, Len(hit_ids)))
    /\ idx' = idx + 1
    /\ UNCHANGED <<pc, hit_ids, hit_type_id>>
    /\ UNCHANGED <<paginateVars, parseVars, worker_df, summaryVars>>

\* lines 135-136
FinishRetrieve ==
    /\ pc = "retrieve"
    /\ idx = Len(hit_ids)
    /\ progress_bar' = Append(progress_bar, <<1, 1>>)
    /\ pc' = "retrieved"
    /\ UNCHANGED <<hit_ids, hit_type_id, idx, listed, assignments_for_review>>
    /\ UNCHANGED <<paginateVars, parseVars, worker_df, summaryVars>>

NextRetrieve == BeginRetrieve \/ RetrieveHit \/ FinishRetrieve

SpecRetrieve == InitRetrieve /\ [][NextRetrieve]_vars

\* The answer of raw submission `a` cannot be decoded: the envelope is
\* malformed, has no FreeText, or its text is not a mapping in JSON.
Undecodable(a) ==
    LET more == parse_answer(a)
    IN  more.raised \/ ~more.value.is_object

\* Record `rec` holds the payload of raw submission `a`.
CarriesPayload(rec, a) ==
    LET fields == parse_answer(a).value.fields
    IN  \A k \in DOMAIN fields \ {"hit_type_id"} :
            k \in DOMAIN rec /\ rec[k] = fields[k]

\* C4: a batch in which exactly one submission cannot be decoded gives one
\* record per submission, exactly one of them carrying an extraction-error
\* marker, each of the others carrying its own payload.
C4_OneFlaggedRestDecoded ==
    (pc = "retrieved"
        /\ Cardinality({i \in 1..Len(listed) : Undecodable(listed[i])}) = 1)
    => /\ Len(assignments_for_review) = Len(listed)
       /\ Cardinality({i \in 1..Len(listed) :
                         Flagged(assignments_for_review[i])}) = 1
       /\ \A i \in 1..Len(listed) :
             ~Undecodable(listed[i])
             => CarriesPayload(assignments_for_review[i], listed[i])

FracEq(a, b) == a[1] * b[2] = b[1] * a[2]
FracLeq(a, b) == a[1] * b[2] <= b[1] * a[2]

\* C9: the value emitted after the k-th unit is k/n; the emitted values never
\* decrease and lie in [0,1]; the last value emitted on completion is 1.
C9_ProgressIsProcessedOverTotal ==
    /\ \A k \in 1..idx : FracEq(progress_bar[k + 1], <<k, Len(hit_ids)>>)
    /\ \A k \in 1..Len(progress_bar) :
          /\ FracLeq(<<0, 1>>, progress_bar[k])
          /\ FracLeq(progress_bar[k], <<1, 1>>)
          /\ k > 1 => FracLeq(progress_bar[k - 1], progress_bar[k])
    /\ pc = "retrieved" => FracEq(progress_bar[Len(progress_bar)], <<1, 1>>)

\* C10: for a submission whose answer decodes, the normalised fields of its
\* record are those of the raw record, whatever the payload's field names,
\* and hit_type_id is the type id given to retrieve_assignments.
C10_NormalisedFieldsKept ==
    \A i \in 1..Len(assignments_for_review) :
        ~Undecodable(listed[i])
        => LET rec == assignments_for_review[i]
               raw == listed[i]
           IN  /\ rec.hit_id = raw.HITId
               /\ rec.assign_id = raw.AssignmentId
               /\ rec.worker_id = raw.WorkerId
               /\ rec.assign_status = raw.AssignmentStatus
               /\ rec.seconds = TimedeltaSeconds(raw.SubmitTime - raw.AcceptTime)
               /\ rec.hit_type_id = hit_type_id

\* ------------------------------------------------------------- aggregation

\* The ascending sequence of a finite set of integers: the order in which
\* groupby lists its group keys.
RECURSIVE SortedInts(_)
SortedInts(S) ==
    IF S = {} THEN <<>>
    ELSE LET m == CHOOSE x \in S : \A y \in S : x <= y
         IN  <<m>> \o SortedInts(S \ {m})

CountAll(col) == Len(col)

\* Series.nunique(): the number of distinct values of a column
Nunique(col) == Cardinality({col[i] : i \in DOMAIN col})

\* assign_df.groupby('worker_id').hit_id.nunique().rename(...).reset_index()
WorkerTable(assignments) ==
    LET ids == SortedInts({assignments[i].worker_id : i \in DOMAIN assignments})
        HitsOf(w) == SelectSeq(assignments, LAMBDA a : a.worker_id = w)
    IN  [k \in 1..Len(ids) |->
            [worker_id |-> ids[k],
             completed |-> Nunique([i \in DOMAIN HitsOf(ids[k]) |->
                                       HitsOf(ids[k])[i].hit_id])]]

Hits == 1..MaxHits

WorkerInputs ==
    SeqsUpTo([worker_id : Workers, hit_id : Hits, assign_status : {Submitted}],
             MaxSubs)

InitWorker ==
    /\ pc = "assignments"
    /\ assignments_for_review \in WorkerInputs
    /\ worker_df = <<>>
    /\ assign = None /\ answer = None /\ parsed = None
    /\ service = None /\ max_results = None /\ results = <<>>
    /\ local_results = <<>> /\ next_token = None /\ calls = <<>>
    /\ my_bar = <<0, 1>>
    /\ hit_ids = <<>> /\ hit_type_id = None /\ idx = 0 /\ listed = <<>>
    /\ progress_bar = <<>>
    /\ hit_df = <<>> /\ summary = <<>>

\* lines 187-188: nothing to tabulate
NoAssignments ==
    /\ pc = "assignments"
    /\ assignments_for_review = <<>>
    /\ pc' = "shown"
    /\ UNCHANGED <<workerVars, paginateVars, parseVars, retrieveVars, summaryVars>>

\* lines 189-192: the worker table
ShowWorkers ==
    /\ pc = "assignments"
    /\ assignments_for_review # <<>>
    /\ worker_df' = WorkerTable(assignments_for_review)
    /\ pc' = "shown"
    /\ UNCHANGED <<assignments_for_review, paginateVars, parseVars,
                   retrieveVars, summaryVars>>

NextWorker == NoAssignments \/ ShowWorkers

SpecWorker == InitWorker /\ [][NextWorker]_vars

\* The submissions of worker w, and the units they are against.
SubmissionsOf(w) ==
    {i \in DOMAIN assignments_for_review : assignments_for_review[i].worker_id = w}
UnitsOf(w) ==
    {h \in Hits : \E i \in SubmissionsOf(w) : assignments_for_review[i].hit_id = h}

\* C7: the worker table has one row per worker id among the submissions, and
\* its count is the number of distinct units the worker submitted against,
\* not the number of the worker's submissions.
C7_CountsDistinctUnits ==
    (pc = "shown" /\ assignments_for_review # <<>>)
    => \A w \in Workers :
         LET rows == {k \in DOMAIN worker_df : worker_df[k].worker_id = w}
         IN  /\ Cardinality(rows) = (IF SubmissionsOf(w) = {} THEN 0 ELSE 1)
             /\ \A k \in rows : worker_df[k].completed = Cardinality(UnitsOf(w))

\* A worker with three submissions against two distinct units has been counted.
C7_Witness ==
    /\ pc = "shown"
    /\ \E w \in Workers :
         /\ Cardinality(SubmissionsOf(w)) = 3
         /\ Cardinality(UnitsOf(w)) = 2
         /\ \E k \in DOMAIN worker_df :
               worker_df[k].worker_id = w /\ worker_df[k].completed = 2

\* ---- to_hit_summary

Titles == {1, 2}
Statuses == {1, 2}
ReviewStatuses == {1}
SummaryHitIds == {1, 2}

HitRows ==
    [hit_id : SummaryHitIds, hit_type_id : HitTypeIds, title : Titles,
     hit_status : Statuses, review_status : ReviewStatuses]

\* The groupby key of a row of hit_df
GroupKey(r) == <<r.hit_type_id, r.title, r.hit_status, r.review_status>>

\* Lexicographic order on tuples of integers of one length
RECURSIVE LexLess(_, _)
LexLess(a, b) ==
    /\ a # <<>>
    /\ \/ Head(a) < Head(b)
       \/ Head(a) = Head(b) /\ LexLess(Tail(a), Tail(b))

SortKeyAsGrouped(row) ==
    <<row.hit_type_id, row.title, row.hit_status, row.review_status>>

\* cols = ['title', 'hit_status', 'review_status', 'n_hits', 'hit_type_id'],
\* the columns sort_values orders by
SortKey(row) ==
    <<row.title, row.hit_status, row.review_status, row.n_hits, row.hit_type_id>>

\* df2.sort_values(cols): ascending, first column first
RECURSIVE SortValues(_)
SortValues(rows) ==
    IF rows = {} THEN <<>>
    ELSE LET m == CHOOSE x \in rows :
                    \A y \in rows : x = y \/ LexLess(SortKey(x), SortKey(y))
         IN  <<m>> \o SortValues(rows \ {m})

\* to_hit_summary(hit_df)
to_hit_summary(df) ==
    LET keys == {GroupKey(df[i]) : i \in DOMAIN df}
        Group(key) == SelectSeq(df, LAMBDA r : GroupKey(r) = key)
        df2 == { [title |-> key[2], hit_status |-> key[3],
                  review_status |-> key[4],
                  n_hits |-> Nunique([i \in DOMAIN Group(key) |-> Group(key)[i].hit_id]),
                  hit_type_id |-> key[1]] : key \in keys }
    IN  SortValues(df2)

InitSummary ==
    /\ pc = "hits"
    /\ hit_df \in SeqsUpTo(HitRows, MaxHitRows)
    /\ summary = <<>>
    /\ assign = None /\ answer = None /\ parsed = None
    /\ service = None /\ max_results = None /\ results = <<>>
    /\ local_results = <<>> /\ next_token = None /\ calls = <<>>
    /\ my_bar = <<0, 1>>
    /\ hit_ids = <<>> /\ hit_type_id = None /\ idx = 0 /\ listed = <<>>
    /\ assignments_for_review = <<>> /\ progress_bar = <<>>
    /\ worker_df = <<>>

\* line 157: summary_hits_df = to_hit_summary(all_hits_df)
Summarise ==
    /\ pc = "hits"
    /\ summary' = to_hit_summary(hit_df)
    /\ pc' = "summarised"
    /\ UNCHANGED <<hit_df, paginateVars, parseVars, retrieveVars, workerVars>>

NextSummary == Summarise

SpecSummary == InitSummary /\ [][NextSummary]_vars

RowKey(row) == <<row.hit_type_id, row.title, row.hit_status, row.review_status>>

\* One row per combination present, counting the distinct unit ids of it.
OneRowPerGroup ==
    \A key \in HitTypeIds \X Titles \X Statuses \X ReviewStatuses :
        LET members == {i \in DOMAIN hit_df : GroupKey(hit_df[i]) = key}
            rows == {k \in DOMAIN summary : RowKey(summary[k]) = key}
        IN  /\ Cardinality(rows) = (IF members = {} THEN 0 ELSE 1)
            /\ \A k \in rows :
                  summary[k].n_hits =
                    Cardinality({h \in SummaryHitIds :
                                   \E i \in members : hit_df[i].hit_id = h})

\* Every reordering of the same rows gives the same summary.
SameForEveryOrder ==
    \A p \in Permutations(DOMAIN hit_df) :
        to_hit_summary([i \in DOMAIN hit_df |-> hit_df[p[i]]]) = summary

\* C6 as stated: one row per (type id, title, status, review status) present,
\* counting its distinct unit ids, the rows ascending by (type id, title,
\* status, review status); so every permutation of the input gives the same
\* output.
C6_SortedByGroupKey ==
    pc = "summarised"
    => /\ OneRowPerGroup
       /\ \A k \in 1..(Len(summary) - 1) :
             LexLess(RowKey(summary[k]), RowKey(summary[k + 1]))
       /\ SameForEveryOrder

\* C6 amended: one row per (type id, title, status, review status) present,
\* counting its distinct unit ids, the rows ascending by (title, status,
\* review status, count, type id); so every permutation of the input gives
\* the same output.
C6_SortedByDisplayedColumns ==
    pc = "summarised"
    => /\ OneRowPerGroup
       /\ \A k \in 1..(Len(summary) - 1) :
             LexLess(<<summary[k].title, summary[k].hit_status,
                       summary[k].review_status, summary[k].n_hits,
                       summary[k].hit_type_id>>,
                     <<summary[k + 1].title, summary[k + 1].hit_status,
                       summary[k + 1].review_status, summary[k + 1].n_hits,
                       summary[k + 1].hit_type_id>>)
       /\ SameForEveryOrder

\* Two groups of one title whose order the count decides against the type id:
\* type 1 with two distinct units comes after type 2 with one.
C6_Witness ==
    /\ pc = "summarised"
    /\ Len(summary) = 2
    /\ summary[1].title = summary[2].title
    /\ summary[1].hit_type_id = 2 /\ summary[1].n_hits = 1
    /\ summary[2].hit_type_id = 1 /\ summary[2].n_hits = 2

====
